---- MODULE Spec2Model ----
(***************************************************************************)
(* Model of src/app.py, the Wikipedia table scraper: one script that is    *)
(* executed top to bottom on every parameter change.  A run extracts the   *)
(* rows of one table, resolves the header, builds the data frame, drops    *)
(* and renames columns, cleans the numeric columns, passes the frame       *)
(* through the cell editor and serialises the result.                      *)
(*                                                                         *)
(* Text is a sequence of one-character strings ("A_1" is <<"A","_","1">>), *)
(* so that splitting, trimming, stripping, formatting and parsing are      *)
(* computed character by character as the code computes them.              *)
(* Numbers are fixed-point integers in units of 10^-Places.                *)
(***************************************************************************)
EXTENDS Integers, Sequences, FiniteSets, TLC

VARIABLES
    pc,         \* the stage the current run executes next, "stopped" or "done"
    last,       \* the stage executed last
    err,        \* the warning or exception of the current run, "none" without one
    widgets,    \* the widget values the current run has read
    tables,     \* the wikitable elements of the page, each a sequence of rows
    rows,       \* rows (lines 101-105, then sliced at 112 or 137)
    headers,    \* headers (line 111 or 129)
    df,         \* df (lines 144-150)
    df2,        \* df2 (lines 168-177)
    df3,        \* df3 (line 182)
    out,        \* csv and xlsx (lines 194 and 213)
    again,      \* the cleaning applied to its own output
    run,        \* the number of the current run of the script
    delivered,  \* the run whose data the download buttons hold, 0 before any
    lastRun     \* how the previous run ended: "none", "ok" or "failed"

vars == <<pc, last, err, widgets, tables, rows, headers, df, df2, df3, out,
          again, run, delivered, lastRun>>

(***************************************************************************)
(* Bounds of the model                                                     *)
(***************************************************************************)
MaxRows == 3
MaxCols == 2
MaxRuns == 3
MaxLabels == 3
MaxCleanRows == 2
MaxEdits == 2
Places == 5

\* the values the widgets of lines 166 and 167 start with
DefaultRound == 0
DefaultThresh == 16

(***************************************************************************)
(* Text                                                                    *)
(***************************************************************************)
Digits == {"0", "1", "2", "3", "4", "5", "6", "7", "8", "9"}

DigitVal(c) ==
    CASE c = "0" -> 0 [] c = "1" -> 1 [] c = "2" -> 2 [] c = "3" -> 3
      [] c = "4" -> 4 [] c = "5" -> 5 [] c = "6" -> 6 [] c = "7" -> 7
      [] c = "8" -> 8 [] c = "9" -> 9

DigitChar(d) ==
    CASE d = 0 -> "0" [] d = 1 -> "1" [] d = 2 -> "2" [] d = 3 -> "3"
      [] d = 4 -> "4" [] d = 5 -> "5" [] d = 6 -> "6" [] d = 7 -> "7"
      [] d = 8 -> "8" [] d = 9 -> "9"

RECURSIVE Pow10(_)
Pow10(n) == IF n <= 0 THEN 1 ELSE 10 * Pow10(n - 1)

Abs(x) == IF x < 0 THEN -x ELSE x

\* str(n) for a non-negative integer: its decimal digits
RECURSIVE NatStr(_)
NatStr(n) == IF n < 10 THEN <<DigitChar(n)>>
             ELSE NatStr(n \div 10) \o <<DigitChar(n % 10)>>

\* str(n) for an integer
IntStr(n) == IF n < 0 THEN <<"-">> \o NatStr(-n) ELSE NatStr(n)

\* value of a sequence of digits (0 for the empty sequence)
RECURSIVE DigitsVal(_)
DigitsVal(s) == IF s = <<>> THEN 0
                ELSE 10 * DigitsVal(SubSeq(s, 1, Len(s) - 1)) + DigitVal(s[Len(s)])

AllDigits(s) == \A i \in 1..Len(s) : s[i] \in Digits

\* position of the first occurrence of character c in s, 0 when absent
RECURSIVE IndexOf(_, _, _)
IndexOf(s, c, i) == IF i > Len(s) THEN 0
                    ELSE IF s[i] = c THEN i ELSE IndexOf(s, c, i + 1)

\* str.split(","): the pieces between commas, an empty text gives one empty piece
RECURSIVE Split(_)
Split(s) ==
    LET i == IndexOf(s, ",", 1)
    IN  IF i = 0 THEN <<s>>
        ELSE <<SubSeq(s, 1, i - 1)>> \o Split(SubSeq(s, i + 1, Len(s)))

\* str.strip(): leading and trailing blanks removed
RECURSIVE LStrip(_)
LStrip(s) == IF s # <<>> /\ s[1] = " " THEN LStrip(Tail(s)) ELSE s

RECURSIVE RStrip(_)
RStrip(s) == IF s # <<>> /\ s[Len(s)] = " " THEN RStrip(SubSeq(s, 1, Len(s) - 1)) ELSE s

Strip(s) == RStrip(LStrip(s))

\* number of occurrences of x in the sequence s (list.count)
Count(s, x) == Cardinality({i \in 1..Len(s) : s[i] = x})

(***************************************************************************)
(* Cells and numbers                                                       *)
(***************************************************************************)
\* A cell is text, None (the frame constructor's filler), an int64 or a
\* float64 number (v in units of 10^-Places), NaN or pd.NA.
Text(s) == [k |-> "text", s |-> s, v |-> 0]
NoneCell == [k |-> "none", s |-> <<>>, v |-> 0]
IntNum(v) == [k |-> "int", s |-> <<>>, v |-> v]
FloatNum(v) == [k |-> "float", s |-> <<>>, v |-> v]
NaN == [k |-> "nan", s |-> <<>>, v |-> 0]
NA == [k |-> "na", s |-> <<>>, v |-> 0]

IsNum(c) == c.k \in {"int", "float"}
IsNull(c) == c.k \in {"nan", "na", "none"}

RECURSIVE TrimZeros(_)
TrimZeros(s) == IF s # <<>> /\ s[Len(s)] = "0" THEN TrimZeros(SubSeq(s, 1, Len(s) - 1)) ELSE s

RECURSIVE PadLeft(_, _)
PadLeft(s, n) == IF Len(s) >= n THEN s ELSE PadLeft(<<"0">> \o s, n)

RECURSIVE PadRight(_, _)
PadRight(s, n) == IF Len(s) >= n THEN s ELSE PadRight(s \o <<"0">>, n)

\* str(x) of a Python float x = v / 10^Places with 0 <= |x| < 10^16: the
\* shortest decimal, in exponent notation when 0 < |x| < 10^-4
FloatStr(v) ==
    LET a == Abs(v)
        sign == IF v < 0 THEN <<"-">> ELSE <<>>
        all == NatStr(a)
        mant == TrimZeros(all)
        ex == Places - Len(all) + 1
        frac == TrimZeros(PadLeft(NatStr(a % Pow10(Places)), Places))
    IN  IF a # 0 /\ a < Pow10(Places - 4)
        THEN sign \o <<mant[1]>>
                  \o (IF Len(mant) > 1 THEN <<".">> \o Tail(mant) ELSE <<>>)
                  \o <<"e", "-">> \o PadLeft(NatStr(ex), 2)
        ELSE sign \o NatStr(a \div Pow10(Places)) \o <<".">>
                  \o (IF frac = <<>> THEN <<"0">> ELSE frac)

\* Series.astype(str) on one cell
AsStr(c) ==
    CASE c.k = "text" -> c.s
      [] c.k = "none" -> <<"N", "o", "n", "e">>
      [] c.k = "int" -> IntStr(c.v \div Pow10(Places))
      [] c.k = "float" -> FloatStr(c.v)
      [] c.k = "nan" -> <<"n", "a", "n">>
      [] c.k = "na" -> <<"<", "N", "A", ">">>

\* str.replace(r"[^\d\.\-]", "", regex=True): keep digits, '.' and '-'
StripNonNumeric(s) == SelectSeq(s, LAMBDA c : c \in Digits \cup {".", "-"})

\* pd.to_numeric on one stripped text: an optional '-', digits with at most
\* one '.', at least one digit.  Decimals beyond Places are outside the domain.
ParseNumber(s) ==
    LET neg == s # <<>> /\ s[1] = "-"
        body == IF neg THEN Tail(s) ELSE s
        i == IndexOf(body, ".", 1)
        ip == IF i = 0 THEN body ELSE SubSeq(body, 1, i - 1)
        fp == IF i = 0 THEN <<>> ELSE SubSeq(body, i + 1, Len(body))
        ok == AllDigits(ip) /\ AllDigits(fp) /\ Len(ip) + Len(fp) >= 1
        mag == DigitsVal(ip) * Pow10(Places)
               + DigitsVal(SubSeq(PadRight(fp, Places), 1, Places))
    IN  [ok |-> ok, isint |-> ok /\ i = 0,
         v |-> IF ok THEN (IF neg THEN -mag ELSE mag) ELSE 0]

\* pd.to_numeric(column, errors='coerce'): int64 when every cell is an
\* integer literal, float64 otherwise; a cell that does not parse is NaN
ToNumeric(col) ==
    LET p == [i \in 1..Len(col) |-> ParseNumber(col[i])]
        allint == \A i \in 1..Len(col) : p[i].isint
    IN  [i \in 1..Len(col) |->
            IF ~p[i].ok THEN NaN
            ELSE IF allint THEN IntNum(p[i].v) ELSE FloatNum(p[i].v)]

\* round(x, r): to r decimal places, ties to the even neighbour
Round(v, r) ==
    IF r >= Places THEN v
    ELSE LET u == Pow10(Places - r)
             a == Abs(v)
             q == a \div u
             m == a % u
             up == 2 * m > u \/ (2 * m = u /\ q % 2 = 1)
             res == (IF up THEN q + 1 ELSE q) * u
         IN  IF v < 0 THEN -res ELSE res

\* abs(x) > 10**thresh_err; every number of the domain is below 10^(9-Places)
Exceeds(v, t) ==
    IF t + Places > 9 THEN FALSE
    ELSE IF t + Places >= 0 THEN Abs(v) > Pow10(t + Places)
    ELSE Abs(v) > 0

\* variant: the comparison without abs()
GuardNoAbs(c, t) ==
    IF IsNum(c) /\ c.v > 0 /\ Exceeds(c.v, t) THEN NA ELSE c

\* lambda x: pd.NA if isinstance(x, (int, float)) and abs(x) > 10**thresh_err else x
Guard(c, t) == IF IsNum(c) /\ Exceeds(c.v, t) THEN NA ELSE c

RoundCell(c, r) == IF IsNum(c) THEN [c EXCEPT !.v = Round(c.v, r)] ELSE c

(***************************************************************************)
(* Frames                                                                  *)
(***************************************************************************)
NoFrame == [defined |-> FALSE, cols |-> <<>>, body |-> <<>>]
Frame(cols, body) == [defined |-> TRUE, cols |-> cols, body |-> body]

MaxLen(rs) == IF rs = <<>> THEN 0
              ELSE CHOOSE n \in {Len(rs[i]) : i \in 1..Len(rs)} :
                       \A i \in 1..Len(rs) : Len(rs[i]) <= n

\* pd.DataFrame(rows, columns=headers): rows shorter than the widest row are
\* filled with None; a width different from the number of labels raises
DataFrame(rs, hs) ==
    IF rs # <<>> /\ MaxLen(rs) # Len(hs)
    THEN [err |-> "ValueError", frame |-> NoFrame]
    ELSE [err |-> "none",
          frame |-> Frame(hs, [i \in 1..Len(rs) |->
                       [j \in 1..Len(hs) |->
                           IF j <= Len(rs[i]) THEN Text(rs[i][j]) ELSE NoneCell]])]

\* DataFrame.drop(cols_to_remove, axis=1): every column carrying a removed label goes
Drop(f, remove) ==
    LET idx == SelectSeq([i \in 1..Len(f.cols) |-> i], LAMBDA i : f.cols[i] \notin remove)
    IN  Frame([j \in 1..Len(idx) |-> f.cols[idx[j]]],
              [i \in 1..Len(f.body) |-> [j \in 1..Len(idx) |-> f.body[i][idx[j]]]])

\* variant: the first occurrence of a repeated label keeps its name
DisambiguateLaterOnly(cols) ==
    [i \in 1..Len(cols) |->
        IF \E j \in 1..(i - 1) : cols[j] = cols[i]
        THEN cols[i] \o <<"_">> \o NatStr(i - 1)
        ELSE cols[i]]

\* [f'{col}_{i}' if cols.count(col) > 1 else col for i, col in enumerate(cols)]
Disambiguate(cols) ==
    [i \in 1..Len(cols) |->
        IF Count(cols, cols[i]) > 1 THEN cols[i] \o <<"_">> \o NatStr(i - 1)
        ELSE cols[i]]

\* df.iloc[a-1:b]
Window(f, a, b) == Frame(f.cols, SubSeq(f.body, a, b))

(***************************************************************************)
(* Header resolution (lines 107-137)                                       *)
(***************************************************************************)
\* variant: the header row is left among the body rows (rows[which_header:])
RowAsHeaderKeepsHeaderRow(R, h) ==
    LET hs == R[h]
        rs == SubSeq(R, h, Len(R))
    IN  IF \A i \in 1..Len(rs) : Len(hs) = Len(rs[i])
        THEN [err |-> "none", stop |-> FALSE, headers |-> hs, rows |-> rs]
        ELSE [err |-> "ShapeMismatch", stop |-> TRUE, headers |-> hs, rows |-> rs]

\* variant: the warning of line 116 without the st.stop() of line 117
RowAsHeaderNoStop(R, h) ==
    LET hs == R[h]
        rs == SubSeq(R, h + 1, Len(R))
    IN  IF \A i \in 1..Len(rs) : Len(hs) = Len(rs[i])
        THEN [err |-> "none", stop |-> FALSE, headers |-> hs, rows |-> rs]
        ELSE [err |-> "ShapeMismatch", stop |-> FALSE, headers |-> hs, rows |-> rs]

\* use_headers branch: which_header is the 1-based widget value
RowAsHeader(R, h) ==
    LET hs == R[h]
        rs == SubSeq(R, h + 1, Len(R))
    IN  IF \A i \in 1..Len(rs) : Len(hs) = Len(rs[i])
        THEN [err |-> "none", stop |-> FALSE, headers |-> hs, rows |-> rs]
        ELSE [err |-> "ShapeMismatch", stop |-> TRUE, headers |-> hs, rows |-> rs]

\* [name.strip() for name in custom_headers.split(",")]
ParseLabels(L) == LET parts == Split(L) IN [i \in 1..Len(parts) |-> Strip(parts[i])]

\* variant: the marked row is consumed like a header row (rows[which_first_row+1:])
CustomHeaderConsumesRow(R, f, L) ==
    IF L = <<>>
    THEN [err |-> "MissingLabels", stop |-> TRUE, headers |-> <<>>, rows |-> R]
    ELSE IF Len(ParseLabels(L)) # Len(R[f])
    THEN [err |-> "LabelCountMismatch", stop |-> TRUE,
          headers |-> ParseLabels(L), rows |-> R]
    ELSE [err |-> "none", stop |-> FALSE,
          headers |-> ParseLabels(L), rows |-> SubSeq(R, f + 1, Len(R))]

\* custom-header branch: which_first_row is the 1-based widget value
CustomHeader(R, f, L) ==
    IF L = <<>>
    THEN [err |-> "MissingLabels", stop |-> TRUE, headers |-> <<>>, rows |-> R]
    ELSE IF Len(ParseLabels(L)) # Len(R[f])
    THEN [err |-> "LabelCountMismatch", stop |-> TRUE,
          headers |-> ParseLabels(L), rows |-> R]
    ELSE [err |-> "none", stop |-> FALSE,
          headers |-> ParseLabels(L), rows |-> SubSeq(R, f, Len(R))]

(***************************************************************************)
(* Numeric cleaning (lines 21-44 and 165-174)                              *)
(***************************************************************************)
\* clean_numeric_columns: a label carried by two columns selects a frame,
\* which has no .str accessor
CleanNumericColumns(f, names) ==
    IF \E n \in names : Count(f.cols, n) > 1
    THEN [err |-> "AttributeError", frame |-> NoFrame]
    ELSE [err |-> "none",
          frame |-> Frame(f.cols,
              [i \in 1..Len(f.body) |-> [j \in 1..Len(f.cols) |->
                  IF f.cols[j] \in names
                  THEN ToNumeric([r \in 1..Len(f.body) |->
                           StripNonNumeric(AsStr(f.body[r][j]))])[i]
                  ELSE f.body[i][j]]])]

\* the numeric columns of a frame (select_dtypes(include=['number']))
NumericCols(f) ==
    {j \in 1..Len(f.cols) :
        Len(f.body) > 0 /\ \A i \in 1..Len(f.body) : f.body[i][j].k \in {"int", "float", "nan"}}

\* lines 166-174: clean, round the numeric columns, replace large values
CleanRoundGuard(f, names, r, t) ==
    LET c == CleanNumericColumns(f, names)
        num == NumericCols(c.frame)
    IN  IF c.err # "none" THEN c
        ELSE [err |-> "none",
              frame |-> Frame(f.cols,
                  [i \in 1..Len(f.body) |-> [j \in 1..Len(f.cols) |->
                      IF j \in num THEN Guard(RoundCell(c.frame.body[i][j], r), t)
                      ELSE c.frame.body[i][j]]])]

(***************************************************************************)
(* Editor and export (lines 182-213)                                       *)
(***************************************************************************)
\* st.data_editor(base): a copy of base with the edited cells replaced
DataEditor(base, e) ==
    Frame(base.cols,
        [i \in 1..Len(base.body) |-> [j \in 1..Len(base.cols) |->
            IF \E o \in e : o.r = i /\ o.c = j
            THEN (CHOOSE o \in e : o.r = i /\ o.c = j).val
            ELSE base.body[i][j]]])

\* one field of the serialised frame: a null cell is an empty field
Field(c) == IF IsNull(c) THEN <<>> ELSE AsStr(c)

\* to_csv(index=False) and to_excel(index=False): the header line, then the rows
Serialize(f) ==
    <<f.cols>> \o [i \in 1..Len(f.body) |-> [j \in 1..Len(f.cols) |-> Field(f.body[i][j])]]

NoOut == [csv |-> <<>>, xlsx |-> <<>>]

\* variant: the frame before the editor is serialised (convert_csv(df2))
ExportedBase(base, edited) == [csv |-> Serialize(base), xlsx |-> Serialize(base)]

\* convert_csv(df3), convert_xlsx(df3)
Exported(base, edited) == [csv |-> Serialize(edited), xlsx |-> Serialize(edited)]

(***************************************************************************)
(* Inputs                                                                  *)
(***************************************************************************)
Letter(j) == CASE j = 1 -> "A" [] j = 2 -> "B" [] j = 3 -> "C" [] OTHER -> "D"

\* the scraped tables: a line of column titles, then lines of figures; the
\* lines of a table may differ in length
TableOf(widths) ==
    [i \in 1..Len(widths) |-> [j \in 1..widths[i] |->
        IF i = 1 THEN <<Letter(j)>> ELSE <<"7">>]]

RawTables == {TableOf(w) : w \in UNION {[1..k -> 1..MaxCols] : k \in 1..MaxRows}}

\* a page holds no wikitable or one
Pages == {<<>>} \cup {<<T>> : T \in RawTables}

\* texts typed into the custom_headers input
LabelTexts == {<<>>, <<"A">>, <<"A", ",", "B">>, <<" ", "A", ",", "A", " ">>,
               <<"A", ",", "A", ",", "A", "_", "1">>}

NoWidgets == [idx |-> 0, use_headers |-> TRUE, which |-> 0, custom_headers |-> <<>>,
              cols_to_remove |-> {}, window |-> <<0, 0>>,
              selected |-> {}, r_err |-> DefaultRound, thresh_err |-> DefaultThresh,
              edits |-> {}]

Range(s) == {s[i] : i \in 1..Len(s)}

(***************************************************************************)
(* The run                                                                 *)
(***************************************************************************)
Init ==
    /\ pc = "fetch"
    /\ last = "start"
    /\ err = "none"
    /\ widgets = NoWidgets
    /\ tables \in Pages
    /\ rows = <<>>
    /\ headers = <<>>
    /\ df = NoFrame
    /\ df2 = NoFrame
    /\ df3 = NoFrame
    /\ out = NoOut
    /\ again = NoFrame
    /\ run = 1
    /\ delivered = 0
    /\ lastRun = "none"

\* a parameter change starts the script again from the top
Rerun ==
    /\ pc \in {"done", "stopped"}
    /\ run < MaxRuns
    /\ run' = run + 1
    /\ tables' \in Pages
    /\ pc' = "fetch"
    /\ last' = "start"
    /\ err' = "none"
    /\ widgets' = NoWidgets
    /\ rows' = <<>>
    /\ headers' = <<>>
    /\ df' = NoFrame
    /\ df2' = NoFrame
    /\ df3' = NoFrame
    /\ out' = NoOut
    /\ again' = NoFrame
    /\ lastRun' = IF pc = "done" THEN "ok" ELSE "failed"
    /\ UNCHANGED delivered

\* lines 82-90, of a run whose url is filled in
Fetch ==
    /\ pc = "fetch"
    /\ last' = "Fetch"
    /\ IF Len(tables) = 0
       THEN err' = "EmptySource" /\ pc' = "stopped"
       ELSE err' = err /\ pc' = "extract"
    /\ UNCHANGED <<widgets, tables, rows, headers, df, df2, df3, out, again,
                   run, delivered, lastRun>>

\* lines 95-105
Extract ==
    /\ pc = "extract"
    /\ \E idx \in 1..Len(tables) :
        /\ widgets' = [widgets EXCEPT !.idx = idx]
        /\ rows' = tables[idx]
    /\ last' = "Extract"
    /\ pc' = "resolve"
    /\ UNCHANGED <<err, tables, headers, df, df2, df3, out, again,
                   run, delivered, lastRun>>

\* lines 107-117
ResolveRowHeader ==
    /\ pc = "resolve"
    /\ \E h \in 1..Len(rows) :
        LET res == RowAsHeader(rows, h)
        IN  /\ widgets' = [widgets EXCEPT !.use_headers = TRUE, !.which = h]
            /\ headers' = res.headers
            /\ rows' = res.rows
            /\ err' = res.err
            /\ pc' = IF res.stop THEN "stopped" ELSE "build"
    /\ last' = "ResolveRowHeader"
    /\ UNCHANGED <<tables, df, df2, df3, out, again, run, delivered, lastRun>>

\* lines 118-137
ResolveCustom ==
    /\ pc = "resolve"
    /\ \E f \in 1..Len(rows), L \in LabelTexts :
        LET res == CustomHeader(rows, f, L)
        IN  /\ widgets' = [widgets EXCEPT !.use_headers = FALSE, !.which = f,
                                          !.custom_headers = L]
            /\ headers' = res.headers
            /\ rows' = res.rows
            /\ err' = res.err
            /\ pc' = IF res.stop THEN "stopped" ELSE "build"
    /\ last' = "ResolveCustom"
    /\ UNCHANGED <<tables, df, df2, df3, out, again, run, delivered, lastRun>>

\* lines 140-146
Build ==
    /\ pc = "build"
    /\ \E remove \in SUBSET Range(headers) :
        LET res == DataFrame(rows, headers)
        IN  /\ widgets' = [widgets EXCEPT !.cols_to_remove = remove]
            /\ IF res.err # "none"
               THEN err' = res.err /\ df' = df /\ pc' = "stopped"
               ELSE /\ err' = err
                    /\ df' = IF remove # {} THEN Drop(res.frame, remove) ELSE res.frame
                    /\ pc' = "select"
    /\ last' = "Build"
    /\ UNCHANGED <<tables, rows, headers, df2, df3, out, again, run, delivered, lastRun>>

\* the (start, end) pairs the slider of line 149 offers over n rows; over an
\* empty frame every pair it can return slices to the empty frame again
Windows(n) == IF n = 0 THEN {<<1, 0>>}
              ELSE {w \in (1..n) \X (1..n) : w[1] <= w[2]}

\* lines 148-150
Select ==
    /\ pc = "select"
    /\ \E w \in Windows(Len(df.body)) :
        /\ widgets' = [widgets EXCEPT !.window = w]
        /\ df' = Window(Frame(Disambiguate(df.cols), df.body), w[1], w[2])
    /\ last' = "Select"
    /\ pc' = "clean"
    /\ UNCHANGED <<err, tables, rows, headers, df2, df3, out, again,
                   run, delivered, lastRun>>

\* lines 158-177 with the widgets' values sel, r and t
CleanStep(sel, r, t) ==
    /\ pc = "clean"
    /\ IF sel = {}
       THEN /\ widgets' = [widgets EXCEPT !.selected = {}]
            /\ df2' = df
            /\ err' = err
            /\ pc' = "edit"
       ELSE LET res == CleanRoundGuard(df, sel, r, t)
            IN  /\ widgets' = [widgets EXCEPT !.selected = sel, !.r_err = r,
                                              !.thresh_err = t]
                /\ df2' = res.frame
                /\ err' = IF res.err # "none" THEN res.err ELSE err
                /\ pc' = IF res.err # "none" THEN "stopped" ELSE "edit"
    /\ last' = "Clean"
    /\ UNCHANGED <<tables, rows, headers, df, df3, out, again, run, delivered, lastRun>>

\* the run with the numeric widgets left as they start: no column selected, or
\* "Are all columns numeric?" ticked
Clean == \E sel \in {{}, Range(df.cols)} : CleanStep(sel, DefaultRound, DefaultThresh)

RoundChoices == {0, 5}
ThreshChoices == {0, 3}

\* the run with any columns selected and the two numbers typed in
CleanWide ==
    \E sel \in SUBSET Range(df.cols), r \in RoundChoices, t \in ThreshChoices :
        /\ sel = {} => (r = DefaultRound /\ t = DefaultThresh)
        /\ CleanStep(sel, r, t)

\* the cleaning of lines 166-174 applied once more, to its own output
CleanAgain ==
    /\ pc = "edit"
    /\ last = "Clean"
    /\ widgets.selected # {}
    /\ again' = CleanRoundGuard(df2, widgets.selected, widgets.r_err,
                                widgets.thresh_err).frame
    /\ last' = "CleanAgain"
    /\ UNCHANGED <<pc, err, widgets, tables, rows, headers, df, df2, df3, out,
                   run, delivered, lastRun>>

\* line 182 with the edits e made in the editor, which refuses a frame with a
\* repeated column label
EditStep(e) ==
    /\ pc = "edit"
    /\ IF \E j \in 1..Len(df2.cols) : Count(df2.cols, df2.cols[j]) > 1
       THEN err' = "StreamlitAPIException" /\ pc' = "stopped" /\ df3' = df3
            /\ widgets' = widgets
       ELSE /\ df3' = DataEditor(df2, e)
            /\ widgets' = [widgets EXCEPT !.edits = e]
            /\ err' = err
            /\ pc' = "export"
    /\ last' = "Edit"
    /\ UNCHANGED <<tables, rows, headers, df, df2, out, again, run, delivered, lastRun>>

\* values typed into a cell of the editor
EditValues == {Text(<<"5", "0", "0">>), FloatNum(500 * Pow10(Places))}

CellsOf(f) == (1..Len(f.body)) \X (1..Len(f.cols))

\* the sets of at most n edits, no two of the same cell
EditSets(f, n) ==
    UNION {{{[r |-> p[1], c |-> p[2], val |-> g[p]] : p \in S} : g \in [S -> EditValues]} :
              S \in {T \in SUBSET CellsOf(f) : Cardinality(T) <= n}}

\* the run with no cell edited, or a number typed into the first cell
Edit == \E e \in {e \in EditSets(df2, 1) :
                    \A o \in e : o.r = 1 /\ o.c = 1 /\ o.val.k = "float"} :
            EditStep(e)

\* the run with up to MaxEdits cells edited
EditWide == \E e \in EditSets(df2, MaxEdits) : EditStep(e)

\* lines 187-221
Export ==
    /\ pc = "export"
    /\ out' = Exported(df2, df3)
    /\ delivered' = run
    /\ last' = "Export"
    /\ pc' = "done"
    /\ UNCHANGED <<err, widgets, tables, rows, headers, df, df2, df3, again, run, lastRun>>

Next ==
    \/ Rerun
    \/ Fetch
    \/ Extract
    \/ ResolveRowHeader
    \/ ResolveCustom
    \/ Build
    \/ Select
    \/ Clean
    \/ Edit
    \/ Export

Spec == Init /\ [][Next]_vars

(***************************************************************************)
(* Column selection alone: the run stands before line 140 with the header  *)
(* row of a two-line table resolved                                        *)
(***************************************************************************)
Labels == {<<"A">>, <<"B">>, <<"A", "_", "1">>, <<"A", "_", "2">>}

LabelSeqs == UNION {[1..k -> Labels] : k \in 1..MaxLabels}

AfterRowHeader(hs, body) ==
    /\ pc = "build"
    /\ last = "ResolveRowHeader"
    /\ err = "none"
    /\ widgets = [NoWidgets EXCEPT !.idx = 1, !.which = 1]
    /\ tables = <<(<<hs>> \o body)>>
    /\ rows = body
    /\ headers = hs
    /\ df = NoFrame
    /\ df2 = NoFrame
    /\ df3 = NoFrame
    /\ out = NoOut
    /\ again = NoFrame
    /\ run = 1
    /\ delivered = 0
    /\ lastRun = "none"

InitSelect == \E hs \in LabelSeqs : AfterRowHeader(hs, <<[j \in 1..Len(hs) |-> <<"7">>]>>)

NextSelect == Build \/ Select

SpecSelect == InitSelect /\ [][NextSelect]_vars

(***************************************************************************)
(* Numeric cleaning alone: the run stands before line 158 with the frame  *)
(* of lines 144-150 built                                                  *)
(***************************************************************************)
\* cell texts of a column of figures
NumTexts == {<<"1", ",", "2", "3", "4", ".", "5", " ", "[", "3", "]">>,
             <<"N", "/", "A">>,
             <<"0", ".", "0", "0", "0", "0", "1">>,
             <<"-", "7">>,
             <<"1", "0", "0", "0">>,
             <<"1", ".", "2", ".", "3">>}

\* header rows: one column, two columns, and a repeated title beside the
\* name line 148 generates for it
CleanHeaders == {<<(<<"A">>)>>, <<(<<"A">>), (<<"B">>)>>,
                 <<(<<"A">>), (<<"A">>), (<<"A", "_", "1">>)>>}

\* the frame lines 144-150 build from a header row and a first column of figures
FrameOf(hs, col) ==
    Frame(Disambiguate(hs),
          [i \in 1..Len(col) |-> [j \in 1..Len(hs) |->
              Text(IF j = 1 THEN col[i] ELSE <<"x">>)]])

AfterSelect(hs, col) ==
    /\ pc = "clean"
    /\ last = "Select"
    /\ err = "none"
    /\ widgets = [NoWidgets EXCEPT !.idx = 1, !.which = 1,
                                   !.window = <<1, Len(col)>>]
    /\ tables = <<(<<hs>> \o FrameOf(hs, col).body)>>
    /\ rows = [i \in 1..Len(col) |-> [j \in 1..Len(hs) |-> IF j = 1 THEN col[i] ELSE <<"x">>]]
    /\ headers = hs
    /\ df = FrameOf(hs, col)
    /\ df2 = NoFrame
    /\ df3 = NoFrame
    /\ out = NoOut
    /\ again = NoFrame
    /\ run = 1
    /\ delivered = 0
    /\ lastRun = "none"

InitClean ==
    \E hs \in CleanHeaders, col \in UNION {[1..k -> NumTexts] : k \in 1..MaxCleanRows} :
        AfterSelect(hs, col)

NextClean == CleanWide \/ CleanAgain

SpecClean == InitClean /\ [][NextClean]_vars

(***************************************************************************)
(* Editor and export alone: the run stands before line 182                 *)
(***************************************************************************)
EditHeaders == {<<(<<"A">>)>>, <<(<<"A">>), (<<"B">>)>>}

\* cell texts of the first column: a figure with a footnote, a gap, a negative figure
EditTexts == {<<"1", ",", "2", "3", "4", ".", "5", " ", "[", "3", "]">>,
              <<"N", "/", "A">>,
              <<"-", "7">>}

AfterClean(hs, col, sel) ==
    /\ pc = "edit"
    /\ last = "Clean"
    /\ err = "none"
    /\ widgets = [NoWidgets EXCEPT !.idx = 1, !.which = 1,
                                   !.window = <<1, Len(col)>>, !.selected = sel]
    /\ tables = <<(<<hs>> \o FrameOf(hs, col).body)>>
    /\ rows = [i \in 1..Len(col) |-> [j \in 1..Len(hs) |-> IF j = 1 THEN col[i] ELSE <<"x">>]]
    /\ headers = hs
    /\ df = FrameOf(hs, col)
    /\ df2 = IF sel = {} THEN df
             ELSE CleanRoundGuard(df, sel, DefaultRound, DefaultThresh).frame
    /\ df3 = NoFrame
    /\ out = NoOut
    /\ again = NoFrame
    /\ run = 1
    /\ delivered = 0
    /\ lastRun = "none"

InitEdit ==
    \E hs \in EditHeaders, col \in UNION {[1..k -> EditTexts] : k \in 1..MaxCleanRows} :
        \E sel \in {{}, Range(hs)} : AfterClean(hs, col, sel)

NextEdit == EditWide \/ Export

SpecEdit == InitEdit /\ [][NextEdit]_vars

(***************************************************************************)
(* Properties                                                              *)
(***************************************************************************)
ValidationErrors == {"EmptySource", "ShapeMismatch", "LabelCountMismatch", "MissingLabels"}

\* the table the run extracted, before line 112 or 137 sliced it
R0 == tables[widgets.idx]

\* C1: whenever a run has built its data frame, every body row handed to the
\* constructor has exactly as many cells as there are labels, under either
\* header strategy: a table with a row of another length is rejected and no
\* frame is built from it (no cell is filled in).
C1_BodyRowsMatchLabels ==
    df.defined =>
        /\ \A i \in 1..Len(rows) : Len(rows[i]) = Len(headers)
        /\ \A i \in 1..Len(df.body), j \in 1..Len(df.cols) : df.body[i][j].k # "none"

\* C2: after row-as-header resolution with header index h, if a row of R[h:]
\* differs in length from R[h-1] the run has stopped with ShapeMismatch;
\* otherwise it goes on with the labels R[h-1] and the |R| - h rows R[h:] in order.
C2_RowAsHeader ==
    last = "ResolveRowHeader" =>
        LET h == widgets.which
        IN  IF \E i \in (h + 1)..Len(R0) : Len(R0[i]) # Len(R0[h])
            THEN err = "ShapeMismatch" /\ pc = "stopped"
            ELSE /\ err = "none"
                 /\ pc = "build"
                 /\ headers = R0[h]
                 /\ Len(rows) = Len(R0) - h
                 /\ \A i \in 1..Len(rows) : rows[i] = R0[h + i]

\* a header row in the middle of the table is accepted and rows follow it
C2_Witness ==
    /\ last = "ResolveRowHeader"
    /\ pc = "build"
    /\ widgets.which = 2
    /\ Len(rows) >= 1

\* the labels of L as the claim counts them: the pieces between commas, trimmed
TrimmedLabels(L) == [i \in 1..Len(Split(L)) |-> Strip(Split(L)[i])]

CustomSucceeded ==
    /\ err = "none"
    /\ pc = "build"
    /\ headers = TrimmedLabels(widgets.custom_headers)
    /\ rows = SubSeq(R0, widgets.which, Len(R0))

\* C3 as stated: custom-header resolution with label text L and first data row f
\* succeeds exactly when splitting L on commas gives |R[f-1]| labels, and then
\* the labels are the trimmed pieces and the body is R[f-1:].
C3_Original ==
    last = "ResolveCustom" =>
        IF Len(Split(widgets.custom_headers)) = Len(R0[widgets.which])
        THEN CustomSucceeded
        ELSE pc = "stopped" /\ err \in ValidationErrors

\* C3 amended: with a non-empty label text L, custom-header resolution succeeds
\* exactly when splitting L on commas gives |R[f-1]| labels (otherwise it stops
\* with LabelCountMismatch), and then the labels are the trimmed pieces and the
\* body rows are R[f-1:]; with an empty L it always stops with MissingLabels.
C3_CustomHeader ==
    last = "ResolveCustom" =>
        IF widgets.custom_headers = <<>>
        THEN pc = "stopped" /\ err = "MissingLabels"
        ELSE IF Len(Split(widgets.custom_headers)) = Len(R0[widgets.which])
        THEN CustomSucceeded
        ELSE pc = "stopped" /\ err = "LabelCountMismatch"

\* labels with blanks around them are accepted for a first data row below the top
C3_Witness ==
    /\ last = "ResolveCustom"
    /\ pc = "build"
    /\ widgets.which = 2
    /\ widgets.custom_headers = <<" ", "A", ",", "A", " ">>
    /\ headers = <<(<<"A">>), (<<"A">>)>>

\* C4: a step that raises a validation failure stops the run with no frame
\* built, cleaned, edited or exported and leaves the data delivered by an
\* earlier run as it was; the only step after it is the start of a new run.
C4_FailureIsTerminal ==
    [][ /\ err' \in ValidationErrors =>
            /\ pc' = "stopped"
            /\ ~df'.defined /\ ~df2'.defined /\ ~df3'.defined
            /\ out' = NoOut
            /\ delivered' = delivered
            /\ delivered' < run'
        /\ err \in ValidationErrors => (pc' = "fetch" /\ run' = run + 1) ]_vars

\* a run delivered data, the next one failed, and the one after is about to export
C4_Witness ==
    /\ run = 3
    /\ lastRun = "failed"
    /\ delivered = 1
    /\ pc = "export"
    /\ err = "none"
    /\ df3.defined

\* C5: after column selection the labels are pairwise distinct.
C5_LabelsDistinct ==
    last = "Select" =>
        \A i \in 1..Len(df.cols), j \in 1..Len(df.cols) :
            i # j => df.cols[i] # df.cols[j]

\* the labels that remain after dropping, in their order
PostDrop == SelectSeq(headers, LAMBDA l : l \notin widgets.cols_to_remove)

\* C6: after column selection, a label that occurs more than once among the
\* remaining columns reads "{label}_{i}" at every occurrence, i being the
\* column's 0-based position among the remaining columns, and a label that
\* occurs once is unchanged.
C6_Disambiguation ==
    last = "Select" =>
        /\ Len(df.cols) = Len(PostDrop)
        /\ \A i \in 1..Len(PostDrop) :
            df.cols[i] = IF Cardinality({j \in 1..Len(PostDrop) : PostDrop[j] = PostDrop[i]}) > 1
                         THEN PostDrop[i] \o <<"_">> \o IntStr(i - 1)
                         ELSE PostDrop[i]

\* B, A, A with B dropped: the positions are those after the drop
C6_Witness ==
    /\ last = "Select"
    /\ headers = <<(<<"B">>), (<<"A">>), (<<"A">>)>>
    /\ widgets.cols_to_remove = {<<"B">>}
    /\ df.cols = <<(<<"A", "_", "0">>), (<<"A", "_", "1">>)>>

\* the designated cells of the frame before cleaning: (row, column) pairs
Designated == {p \in (1..Len(df.body)) \X (1..Len(df.cols)) :
                  df.cols[p[2]] \in widgets.selected}

Parsed(p) == ParseNumber(StripNonNumeric(AsStr(df.body[p[1]][p[2]])))

\* C7: clean_numeric_columns raises no error on any frame and any selection:
\* a designated cell whose stripped text does not parse is null, every other
\* designated cell is a number, and a null is neither zero nor the empty text.
C7_CleaningNeverHalts ==
    (last = "Clean" /\ widgets.selected # {}) =>
        LET c == CleanNumericColumns(df, widgets.selected)
        IN  /\ c.err = "none"
            /\ err = "none"
            /\ \A p \in Designated :
                LET cell == c.frame.body[p[1]][p[2]]
                IN  IF Parsed(p).ok
                    THEN IsNum(cell) /\ cell.v = Parsed(p).v
                    ELSE cell.k = "nan" /\ cell # IntNum(0) /\ cell # FloatNum(0)
                         /\ cell # Text(<<>>)

\* C8: after cleaning, no designated cell holds a number above 10^maxDigits in
\* absolute value: a parsed and rounded value above it is null, any other
\* parsed and rounded value is kept as that number.
C8_MagnitudeGuard ==
    (last = "Clean" /\ pc = "edit" /\ widgets.selected # {}) =>
        \A p \in Designated :
            LET cell == df2.body[p[1]][p[2]]
                v == Round(Parsed(p).v, widgets.r_err)
                limit == Pow10(widgets.thresh_err + Places)
            IN  /\ IsNum(cell) => Abs(cell.v) <= limit
                /\ Parsed(p).ok =>
                     IF Abs(v) > limit THEN IsNull(cell)
                     ELSE IsNum(cell) /\ cell.v = v

\* one column holds a value above the limit, one at the limit: -7 and 1000
\* with maxDigits 0 and 3
C8_Witness ==
    /\ last = "Clean"
    /\ pc = "edit"
    /\ widgets.selected # {}
    /\ \E p \in Designated : Parsed(p).ok /\ Parsed(p).v < 0 /\ IsNull(df2.body[p[1]][p[2]])
    /\ \E p \in Designated : Parsed(p).ok /\ IsNum(df2.body[p[1]][p[2]])

SameCell(a, b) ==
    \/ IsNull(a) /\ IsNull(b)
    \/ IsNum(a) /\ IsNum(b) /\ a.v = b.v
    \/ a.k = "text" /\ b.k = "text" /\ a.s = b.s

\* C9: cleaning the output of a cleaning with the same parameters gives that
\* output again, cell for cell.
C9_Idempotent ==
    last = "CleanAgain" =>
        /\ again.defined
        /\ again.cols = df2.cols
        /\ Len(again.body) = Len(df2.body)
        /\ \A i \in 1..Len(df2.body), j \in 1..Len(df2.cols) :
            SameCell(again.body[i][j], df2.body[i][j])

\* the frame the cleaner hands to the editor, computed from df
CleanerOutput ==
    IF widgets.selected = {} THEN df
    ELSE CleanRoundGuard(df, widgets.selected, widgets.r_err, widgets.thresh_err).frame

\* C10: when the run is done, every cell of the edited frame is the override
\* recorded for it, or the base cell without one; the base frame is still the
\* cleaner's output; and the exported data is the serialisation of the edited frame.
C10_MergedView ==
    pc = "done" =>
        /\ df2 = CleanerOutput
        /\ df3.cols = df2.cols
        /\ Len(df3.body) = Len(df2.body)
        /\ \A i \in 1..Len(df2.body), j \in 1..Len(df2.cols) :
            df3.body[i][j] =
                IF \E o \in widgets.edits : o.r = i /\ o.c = j
                THEN (CHOOSE o \in widgets.edits : o.r = i /\ o.c = j).val
                ELSE df2.body[i][j]
        /\ out.csv = <<df3.cols>> \o
               [i \in 1..Len(df3.body) |-> [j \in 1..Len(df3.cols) |->
                   IF IsNull(df3.body[i][j]) THEN <<>> ELSE AsStr(df3.body[i][j])]]
        /\ out.xlsx = out.csv

\* a null base cell is overridden with 500: the export shows 500.0, the base is null
C10_Witness ==
    /\ pc = "done"
    /\ \E o \in widgets.edits :
        /\ o.val = FloatNum(500 * Pow10(Places))
        /\ IsNull(df2.body[o.r][o.c])
        /\ out.csv[o.r + 1][o.c] = <<"5", "0", "0", ".", "0">>

====
